---- MODULE Spec2Model ----
(***************************************************************************)
(* Process-wide memory barrier (membarrier-rs, src/src/lib.rs).            *)
(*                                                                         *)
(* The process is a set of threads that call the public operations of the  *)
(* crate.  On Linux these are light(), heavy(), init_membarrier(),         *)
(* light_membarrier() and heavy_membarrier(); on Windows and on every      *)
(* other system only light() and heavy() exist.  Every kernel call is one  *)
(* step whose result the kernel chooses; a failed fatal_assert! aborts the *)
(* process, after which no thread takes a step.                            *)
(*                                                                         *)
(* Memory is modelled by what each thread knows: known[t] is the set of    *)
(* writes thread t has recognised, shared is the set of writes that have   *)
(* left their writer's processor.  A SeqCst fence publishes the caller's   *)
(* knowledge and picks up what is shared; a process-wide barrier makes     *)
(* every thread do so; a compiler fence moves nothing between processors.  *)
(***************************************************************************)
EXTENDS Integers, Sequences, FiniteSets

\* ------------------------------------------------------------------ bounds

\* The public operations each thread may start.
MaxCalls == 2

\* The threads of the process, and the value of `lock` while no thread holds it.
Threads == {1, 2}
NoThread == 0

\* --------------------------------------------------------- program constants

MEMBARRIER_CMD_GLOBAL_EXPEDITED == 2
MEMBARRIER_CMD_REGISTER_GLOBAL_EXPEDITED == 4

\* What the kernel may answer to MEMBARRIER_CMD_QUERY: an error, or a mask of
\* supported commands (MEMBARRIER_CMD_GLOBAL alone, with one of the two bits
\* is_supported() needs, with both).
QueryResults == {-1, 1, 3, 5, 7}
\* What any other system call may answer: an error or success.
CallResults == {-1, 0}

Strategies == {"Membarrier", "Mprotect", "Fallback"}
TargetOs == {"linux", "windows", "other"}
TargetArch == {"x86", "x86_64", "aarch64"}

VARIABLES
    target_os,     \* cfg(target_os), fixed by the build
    target_arch,   \* cfg(target_arch), fixed by the build
    process,       \* "running" | "aborted" (libc::abort) | "segfault"
    pc,            \* pc[t]: where thread t stands
    op,            \* op[t]: the public operation thread t is inside, or "none"
    calls,         \* calls[t]: public operations thread t has started
    strategyOnce,  \* lazy_static STRATEGY: "incomplete" | "running" | "complete"
    STRATEGY,      \* the value of STRATEGY, "Unresolved" until initialised
    barrierOnce,   \* lazy_static BARRIER: "incomplete" | "running" | "complete"
    page,          \* the dummy page: [prot, pinned, resident, dirty, word]
    mutexInit,     \* the pthread mutex of BARRIER has been initialised
    lock,          \* the thread holding BARRIER.lock, or NoThread
    registered,    \* kernel: the process registered for global expedited barriers
    ret,           \* ret[t]: what the kernel answered while is_supported() runs:
                   \* <<query>>, then <<query, registration>>
    supported,     \* supported[t]: what is_supported() returned: "true", "false"
    matched,       \* matched[t]: the strategy `match *STRATEGY` read, or "none"
    emitted,       \* emitted[t]: the fence the current call emitted
    trace,         \* trace[t]: the kernel calls of the current call, in order
    failed,        \* failed[t]: the checked kernel call of the current call that failed
    known,         \* known[t]: the writes thread t has recognised
    shared,        \* the writes visible outside their writer's processor
    snapLight,     \* knowledge of the issuers of light() barriers so far
    snapHeavy,     \* knowledge of the issuers of heavy() barriers so far
    owed,          \* owed[t]: what the barrier contract says t knows by now
    counts         \* how often registration, mmap, and each operation ran

vars == <<target_os, target_arch, process, pc, op, calls, strategyOnce, STRATEGY,
          barrierOnce, page, mutexInit, lock, registered, ret, supported,
          matched, emitted, trace, failed, known, shared, snapLight, snapHeavy,
          owed, counts>>

config == <<target_os, target_arch>>
lazy == <<strategyOnce, STRATEGY, barrierOnce>>
pagevars == <<page, mutexInit, lock>>
locals == <<ret, supported, matched, emitted>>
memory == <<known, shared>>
history == <<snapLight, snapHeavy, owed>>


\* ------------------------------------------------------------------ helpers

\* The bitwise `&` of two non-negative integers (lib.rs:179-180).
RECURSIVE BitAnd(_, _)
BitAnd(a, b) ==
    IF a = 0 \/ b = 0 THEN 0
    ELSE (a % 2) * (b % 2) + 2 * BitAnd(a \div 2, b \div 2)

\* A wrong test of the query's answer: only the global-expedited bit is looked at.
QueryAccepted_OneBit(r) ==
    ~ (\/ r < 0
       \/ BitAnd(r, MEMBARRIER_CMD_GLOBAL_EXPEDITED) = 0)

\* membarrier::is_supported, first half: the answer to the query lets the
\* function go on to register (neither `return false` of lines 178-183 taken).
QueryAccepted(r) ==
    ~ (\/ r < 0
       \/ BitAnd(r, MEMBARRIER_CMD_GLOBAL_EXPEDITED) = 0
       \/ BitAnd(r, MEMBARRIER_CMD_REGISTER_GLOBAL_EXPEDITED) = 0)

\* membarrier::is_supported, second half: the registration did not fail.
RegisterAccepted(r) == ~ (r < 0)

\* mprotect::is_supported: the trick is used on x86 and x86-64 only.
mprotect_is_supported == target_arch = "x86" \/ target_arch = "x86_64"

\* A wrong initialiser of STRATEGY: the page trick is tried first.
ResolveStrategy_PageFirst(sup) ==
    IF mprotect_is_supported THEN "Mprotect"
    ELSE IF sup THEN "Membarrier"
    ELSE "Fallback"

\* The initialiser of STRATEGY, given what membarrier::is_supported() returned.
ResolveStrategy(sup) ==
    IF sup THEN "Membarrier"
    ELSE IF mprotect_is_supported THEN "Mprotect"
    ELSE "Fallback"

\* A wrong light(): a compiler fence under every strategy.
LightFence_CompilerOnly(s) == "compiler"

\* A wrong light(): a full fence under every strategy.
LightFence_FullFence(s) == "seqcst"

\* linux::light: the fence each arm of the match emits.
LightFence(s) ==
    IF s = "Membarrier" \/ s = "Mprotect" THEN "compiler" ELSE "seqcst"

\* A wrong heavy(): the Mprotect arm issues the membarrier system call.
HeavyArm_Syscall(s) ==
    CASE s = "Membarrier" -> "membarrier_barrier"
      [] s = "Mprotect"   -> "membarrier_barrier"
      [] OTHER            -> "fence"

\* A wrong heavy(): the Membarrier arm runs the page barrier.
HeavyArm_PageAlways(s) ==
    CASE s = "Membarrier" -> "barrier_deref"
      [] s = "Mprotect"   -> "barrier_deref"
      [] OTHER            -> "fence"

\* linux::heavy: where each arm of the match goes.
HeavyArm(s) ==
    CASE s = "Membarrier" -> "membarrier_barrier"
      [] s = "Mprotect"   -> "barrier_deref"
      [] OTHER            -> "fence"

\* A wrong fatal_assert!: the condition is not looked at.
fatal_assert_Ignored(cond) == process' = process

\* fatal_assert!: abort the process unless the condition holds.
fatal_assert(cond) == process' = IF cond THEN process ELSE "aborted"

Goto(t, next) == pc' = [pc EXCEPT ![t] = next]

\* After a step that may kill the process: the thread goes on to `next` unless
\* the process has just died.
Proceed(t, next) == pc' = [pc EXCEPT ![t] = IF process' = "running" THEN next ELSE @]

Record(t, call) == trace' = [trace EXCEPT ![t] = Append(@, call)]

\* A checked kernel call failed: remember which one.
Check(t, call, ok) ==
    failed' = [failed EXCEPT ![t] = IF ok \/ @ # "none" THEN @ ELSE call]

Count(field) == counts' = [counts EXCEPT ![field] = @ + 1]

\* ------------------------------------------------------------------- memory

\* atomic::compiler_fence: nothing moves between processors.
CompilerFence == UNCHANGED memory

\* atomic::fence(SeqCst) by thread t.
SeqCstFence(t) ==
    /\ shared' = shared \cup known[t]
    /\ known' = [known EXCEPT ![t] = shared \cup known[t]]

\* A barrier on every thread of the process (the IPI of sys_membarrier, of a
\* TLB shootdown, or FlushProcessWriteBuffers).
ProcessWideBarrier ==
    LET all == shared \cup UNION {known[u] : u \in Threads}
    IN  /\ shared' = all
        /\ known' = [u \in Threads |-> all]

\* pthread_mutex_lock acquires what earlier holders released.
Acquire(t) ==
    /\ known' = [known EXCEPT ![t] = @ \cup shared]
    /\ shared' = shared

\* pthread_mutex_unlock releases what the holder knows.
Release(t) ==
    /\ shared' = shared \cup known[t]
    /\ known' = known

\* The strategies under which light() is itself a full fence.
LightIsFence ==
    \/ target_os = "other"
    \/ target_os = "linux" /\ STRATEGY = "Fallback"

\* A light() barrier by t takes effect: t is owed what every earlier heavy()
\* issuer knew, and what every earlier light() issuer knew when light() is a fence.
LogLight(t) ==
    /\ snapLight' = snapLight \cup known[t]
    /\ snapHeavy' = snapHeavy
    /\ owed' = [owed EXCEPT ![t] =
                   @ \cup snapHeavy \cup (IF LightIsFence THEN snapLight ELSE {})]

\* A heavy() barrier by t takes effect: t is owed what every earlier issuer knew,
\* and every thread that issued a barrier before is owed nothing new.
LogHeavy(t) ==
    /\ snapHeavy' = snapHeavy \cup known[t]
    /\ snapLight' = snapLight
    /\ owed' = [owed EXCEPT ![t] = @ \cup snapHeavy \cup snapLight]

LogBarrier(t) == IF op[t] = "heavy" THEN LogHeavy(t)
                 ELSE IF op[t] = "light" THEN LogLight(t)
                 ELSE UNCHANGED history

\* -------------------------------------------------------------------- Init

Init ==
    /\ target_os \in TargetOs
    /\ target_arch \in TargetArch
    /\ process = "running"
    /\ pc = [t \in Threads |-> "idle"]
    /\ op = [t \in Threads |-> "none"]
    /\ calls = [t \in Threads |-> 0]
    /\ strategyOnce = "incomplete"
    /\ STRATEGY = "Unresolved"
    /\ barrierOnce = "incomplete"
    /\ page = [prot |-> "unmapped", pinned |-> FALSE, resident |-> FALSE,
               dirty |-> FALSE, word |-> 0]
    /\ mutexInit = FALSE
    /\ lock = NoThread
    /\ registered = FALSE
    /\ ret = [t \in Threads |-> << >>]
    /\ supported = [t \in Threads |-> "none"]
    /\ matched = [t \in Threads |-> "none"]
    /\ emitted = [t \in Threads |-> "none"]
    /\ trace = [t \in Threads |-> << >>]
    /\ failed = [t \in Threads |-> "none"]
    /\ known = [t \in Threads |-> {}]
    /\ shared = {}
    /\ snapLight = {}
    /\ snapHeavy = {}
    /\ owed = [t \in Threads |-> {}]
    /\ counts = [register |-> 0, lazyRegister |-> 0, mmap |-> 0,
                 init_membarrier |-> 0, heavy |-> 0]

\* ------------------------------------------------------ entering operations

Idle(t) == process = "running" /\ pc[t] = "idle"

\* Thread t starts public operation o and stands at `entry`.
Begin(t, o, entry) ==
    /\ Idle(t)
    /\ calls[t] < MaxCalls
    /\ op' = [op EXCEPT ![t] = o]
    /\ calls' = [calls EXCEPT ![t] = @ + 1]
    /\ pc' = [pc EXCEPT ![t] = entry]

\* The caller stores a value of its own (the write a barrier is to publish).
Write(t) ==
    /\ Idle(t)
    /\ t \notin known[t]
    /\ known' = [known EXCEPT ![t] = @ \cup {t}]
    /\ UNCHANGED <<config, process, pc, op, calls, lazy, pagevars, registered,
                   locals, trace, failed, shared, history, counts>>

\* default::light: fence(SeqCst).
default_light(t) ==
    /\ target_os = "other"
    /\ Begin(t, "light", "return")
    /\ emitted' = [emitted EXCEPT ![t] = "seqcst"]
    /\ SeqCstFence(t)
    /\ LogLight(t)
    /\ UNCHANGED <<config, process, lazy, pagevars, registered, ret, supported,
                   matched, trace, failed, counts>>

\* default::heavy: fence(SeqCst).
default_heavy(t) ==
    /\ target_os = "other"
    /\ Begin(t, "heavy", "return")
    /\ emitted' = [emitted EXCEPT ![t] = "seqcst"]
    /\ SeqCstFence(t)
    /\ LogHeavy(t)
    /\ UNCHANGED <<config, process, lazy, pagevars, registered, ret, supported,
                   matched, trace, failed, counts>>

\* windows::light: compiler_fence(SeqCst).
windows_light(t) ==
    /\ target_os = "windows"
    /\ Begin(t, "light", "return")
    /\ emitted' = [emitted EXCEPT ![t] = "compiler"]
    /\ CompilerFence
    /\ LogLight(t)
    /\ UNCHANGED <<config, process, lazy, pagevars, registered, ret, supported,
                   matched, trace, failed, counts>>

\* windows::heavy: FlushProcessWriteBuffers().
windows_heavy(t) ==
    /\ target_os = "windows"
    /\ Begin(t, "heavy", "return")
    /\ Record(t, "FlushProcessWriteBuffers")
    /\ ProcessWideBarrier
    /\ LogHeavy(t)
    /\ UNCHANGED <<config, process, lazy, pagevars, registered, locals, failed,
                   counts>>

\* linux::light: first `*STRATEGY`.
light(t) ==
    /\ target_os = "linux"
    /\ Begin(t, "light", "strategy_deref")
    /\ UNCHANGED <<config, process, lazy, pagevars, registered, locals, trace,
                   failed, memory, history, counts>>

\* linux::heavy: first `*STRATEGY`.
heavy(t) ==
    /\ target_os = "linux"
    /\ Begin(t, "heavy", "strategy_deref")
    /\ UNCHANGED <<config, process, lazy, pagevars, registered, locals, trace,
                   failed, memory, history, counts>>

\* linux::init_membarrier: fatal_assert!(membarrier::is_supported()).
init_membarrier(t) ==
    /\ target_os = "linux"
    /\ Begin(t, "init_membarrier", "query")
    /\ Count("init_membarrier")
    /\ UNCHANGED <<config, process, lazy, pagevars, registered, locals, trace,
                   failed, memory, history>>

\* linux::light_membarrier: compiler_fence(SeqCst).
light_membarrier(t) ==
    /\ target_os = "linux"
    /\ Begin(t, "light_membarrier", "return")
    /\ emitted' = [emitted EXCEPT ![t] = "compiler"]
    /\ CompilerFence
    /\ UNCHANGED <<config, process, lazy, pagevars, registered, ret, supported,
                   matched, trace, failed, history, counts>>

\* linux::heavy_membarrier: membarrier::barrier().
heavy_membarrier(t) ==
    /\ target_os = "linux"
    /\ Begin(t, "heavy_membarrier", "membarrier_barrier")
    /\ UNCHANGED <<config, process, lazy, pagevars, registered, locals, trace,
                   failed, memory, history, counts>>


\* ------------------------------------------------------- lazy_static STRATEGY

At(t, where) == process = "running" /\ pc[t] = where

\* A wrong `*STRATEGY`: no Once, every use runs the initialiser again.
strategy_deref_NoOnce(t) ==
    /\ At(t, "strategy_deref")
    /\ Goto(t, "query")
    /\ UNCHANGED <<config, process, op, calls, lazy, pagevars, registered,
                   locals, trace, failed, memory, history, counts>>

\* `*STRATEGY`: the first thread to come runs the initialiser, a thread that
\* comes while it runs waits, a thread that comes later reads the value.
strategy_deref(t) ==
    /\ At(t, "strategy_deref")
    /\ \/ /\ strategyOnce = "incomplete"
          /\ strategyOnce' = "running"
          /\ Goto(t, "query")
       \/ /\ strategyOnce = "complete"
          /\ strategyOnce' = strategyOnce
          /\ Goto(t, "match")
    /\ UNCHANGED <<config, process, op, calls, STRATEGY, barrierOnce, pagevars,
                   registered, locals, trace, failed, memory, history, counts>>

\* Where is_supported() returns to: the initialiser of STRATEGY, or the
\* fatal_assert! of init_membarrier().
ReturnSite(t) == IF op[t] = "init_membarrier" THEN "init_assert" ELSE "strategy_init"

\* A wrong probe: an error answer to the query is fatal.
is_supported_query_Asserts(t) ==
    /\ At(t, "query")
    /\ \E r \in QueryResults :
          /\ fatal_assert(r >= 0)
          /\ ret' = [ret EXCEPT ![t] = <<r>>]
          /\ IF QueryAccepted(r)
             THEN /\ supported' = supported
                  /\ Proceed(t, "register")
             ELSE /\ supported' = [supported EXCEPT ![t] = "false"]
                  /\ Proceed(t, ReturnSite(t))
    /\ Record(t, "query")
    /\ UNCHANGED <<config, op, calls, lazy, pagevars, registered, matched,
                   emitted, failed, memory, history, counts>>

\* membarrier::is_supported, the query: sys_membarrier(MEMBARRIER_CMD_QUERY) and
\* the test of its answer.
is_supported_query(t) ==
    /\ At(t, "query")
    /\ \E r \in QueryResults :
          /\ ret' = [ret EXCEPT ![t] = <<r>>]
          /\ IF QueryAccepted(r)
             THEN /\ supported' = supported
                  /\ Goto(t, "register")
             ELSE /\ supported' = [supported EXCEPT ![t] = "false"]
                  /\ Goto(t, ReturnSite(t))
    /\ Record(t, "query")
    /\ UNCHANGED <<config, process, op, calls, lazy, pagevars, registered,
                   matched, emitted, failed, memory, history, counts>>

\* membarrier::is_supported, the registration:
\* sys_membarrier(MEMBARRIER_CMD_REGISTER_GLOBAL_EXPEDITED).
is_supported_register(t) ==
    /\ At(t, "register")
    /\ \E r \in CallResults :
          /\ registered' = (registered \/ r >= 0)
          /\ supported' = [supported EXCEPT ![t] =
                              IF RegisterAccepted(r) THEN "true" ELSE "false"]
          /\ ret' = [ret EXCEPT ![t] = Append(@, r)]
    /\ Goto(t, ReturnSite(t))
    /\ Record(t, "register")
    /\ counts' = [counts EXCEPT
                    !.register = @ + 1,
                    !.lazyRegister = IF op[t] = "init_membarrier" THEN @ ELSE @ + 1]
    /\ UNCHANGED <<config, process, op, calls, lazy, pagevars, matched,
                   emitted, failed, memory, history>>

\* The initialiser of STRATEGY ends: the value is stored once and for all.
strategy_init(t) ==
    /\ At(t, "strategy_init")
    /\ STRATEGY' = ResolveStrategy(supported[t] = "true")
    /\ strategyOnce' = "complete"
    /\ ret' = [ret EXCEPT ![t] = << >>]
    /\ Goto(t, "match")
    /\ UNCHANGED <<config, process, op, calls, barrierOnce, pagevars, registered,
                   supported, matched, emitted, trace, failed, memory, history,
                   counts>>

\* init_membarrier: fatal_assert!(membarrier::is_supported()).
init_assert(t) ==
    /\ At(t, "init_assert")
    /\ fatal_assert(supported[t] = "true")
    /\ ret' = [ret EXCEPT ![t] = << >>]
    /\ Proceed(t, "return")
    /\ UNCHANGED <<config, op, calls, lazy, pagevars, registered, supported,
                   matched, emitted, trace, failed, memory, history, counts>>

\* ----------------------------------------------------------- light and heavy

\* linux::light: match *STRATEGY.
light_match(t) ==
    /\ At(t, "match")
    /\ op[t] = "light"
    /\ matched' = [matched EXCEPT ![t] = STRATEGY]
    /\ emitted' = [emitted EXCEPT ![t] = LightFence(STRATEGY)]
    /\ IF LightFence(STRATEGY) = "seqcst" THEN SeqCstFence(t) ELSE CompilerFence
    /\ LogLight(t)
    /\ Record(t, "match")
    /\ Goto(t, "return")
    /\ UNCHANGED <<config, process, op, calls, lazy, pagevars, registered, ret,
                   supported, failed, counts>>

\* linux::heavy: match *STRATEGY.
heavy_match(t) ==
    /\ At(t, "match")
    /\ op[t] = "heavy"
    /\ matched' = [matched EXCEPT ![t] = STRATEGY]
    /\ Record(t, "match")
    /\ IF HeavyArm(STRATEGY) = "fence"
       THEN /\ emitted' = [emitted EXCEPT ![t] = "seqcst"]
            /\ SeqCstFence(t)
            /\ LogHeavy(t)
            /\ Goto(t, "return")
       ELSE /\ Goto(t, HeavyArm(STRATEGY))
            /\ UNCHANGED <<emitted, memory, history>>
    /\ UNCHANGED <<config, process, op, calls, lazy, pagevars, registered, ret,
                   supported, failed, counts>>

\* membarrier::barrier:
\* fatal_assert!(sys_membarrier(MEMBARRIER_CMD_GLOBAL_EXPEDITED) >= 0).  The
\* kernel runs the barrier on the threads of registered processes; the caller
\* of a process that never registered gets a barrier of its own only.
membarrier_barrier(t) ==
    /\ At(t, "membarrier_barrier")
    /\ \E r \in CallResults :
          /\ fatal_assert(r >= 0)
          /\ Check(t, "membarrier", r >= 0)
          /\ IF r >= 0
             THEN /\ IF registered THEN ProcessWideBarrier ELSE SeqCstFence(t)
                  /\ LogBarrier(t)
             ELSE UNCHANGED <<memory, history>>
    /\ Record(t, "membarrier")
    /\ Proceed(t, "return")
    /\ UNCHANGED <<config, op, calls, lazy, pagevars, registered, locals, counts>>

\* The operation returns to its caller.
return(t) ==
    /\ At(t, "return")
    /\ pc' = [pc EXCEPT ![t] = "idle"]
    /\ counts' = [counts EXCEPT !.heavy = IF op[t] = "heavy" THEN @ + 1 ELSE @]
    /\ op' = [op EXCEPT ![t] = "none"]
    /\ ret' = [ret EXCEPT ![t] = << >>]
    /\ supported' = [supported EXCEPT ![t] = "none"]
    /\ matched' = [matched EXCEPT ![t] = "none"]
    /\ emitted' = [emitted EXCEPT ![t] = "none"]
    /\ trace' = [trace EXCEPT ![t] = << >>]
    /\ UNCHANGED <<config, process, calls, lazy, pagevars, registered, failed,
                   memory, history>>


\* -------------------------------------------------------- lazy_static BARRIER

\* What pthread_* calls may answer: success or an error number.
PthreadResults == {0, 22}

\* A wrong `*BARRIER`: no Once, every use runs the initialiser again.
barrier_deref_NoOnce(t) ==
    /\ At(t, "barrier_deref")
    /\ Goto(t, "sysconf")
    /\ UNCHANGED <<config, process, op, calls, lazy, pagevars, registered,
                   locals, trace, failed, memory, history, counts>>

\* A wrong `*BARRIER`: a thread that comes while the initialiser runs does not
\* wait for it.
barrier_deref_NoWait(t) ==
    /\ At(t, "barrier_deref")
    /\ \/ /\ barrierOnce = "incomplete"
          /\ barrierOnce' = "running"
          /\ Goto(t, "sysconf")
       \/ /\ barrierOnce # "incomplete"
          /\ barrierOnce' = barrierOnce
          /\ Goto(t, "mutex_lock")
    /\ UNCHANGED <<config, process, op, calls, strategyOnce, STRATEGY, pagevars,
                   registered, locals, trace, failed, memory, history, counts>>

\* mprotect::barrier: `BARRIER.barrier()`, first `*BARRIER`.
barrier_deref(t) ==
    /\ At(t, "barrier_deref")
    /\ \/ /\ barrierOnce = "incomplete"
          /\ barrierOnce' = "running"
          /\ Goto(t, "sysconf")
       \/ /\ barrierOnce = "complete"
          /\ barrierOnce' = barrierOnce
          /\ Goto(t, "mutex_lock")
    /\ UNCHANGED <<config, process, op, calls, strategyOnce, STRATEGY, pagevars,
                   registered, locals, trace, failed, memory, history, counts>>

\* BARRIER: sysconf(_SC_PAGESIZE) and fatal_assert!(page_size > 0).
barrier_sysconf(t) ==
    /\ At(t, "sysconf")
    /\ \E ok \in BOOLEAN :
          /\ fatal_assert(ok)
          /\ Check(t, "sysconf", ok)
    /\ Record(t, "sysconf")
    /\ Proceed(t, "mmap")
    /\ UNCHANGED <<config, op, calls, lazy, pagevars, registered, locals, memory,
                   history, counts>>

\* BARRIER: mmap of one anonymous private page with PROT_NONE, and the two
\* fatal_assert! on its result.
barrier_mmap(t) ==
    /\ At(t, "mmap")
    /\ \E ok \in BOOLEAN :
          /\ fatal_assert(ok)
          /\ Check(t, "mmap", ok)
          /\ page' = IF ok THEN [page EXCEPT !.prot = "none"] ELSE page
    /\ Record(t, "mmap")
    /\ Count("mmap")
    /\ Proceed(t, "mlock")
    /\ UNCHANGED <<config, op, calls, lazy, mutexInit, lock, registered, locals,
                   memory, history>>

\* BARRIER: libc::mlock(page, page_size); its result is not looked at.
barrier_mlock(t) ==
    /\ At(t, "mlock")
    /\ \E ok \in BOOLEAN :
          page' = [page EXCEPT !.pinned = ok, !.resident = ok]
    /\ Record(t, "mlock")
    /\ Goto(t, "mutex_init")
    /\ UNCHANGED <<config, process, op, calls, lazy, mutexInit, lock, registered,
                   locals, failed, memory, history, counts>>

\* BARRIER: pthread_mutexattr_init, _settype(NORMAL), pthread_mutex_init,
\* pthread_mutexattr_destroy, each under fatal_assert!; then the value is stored.
barrier_mutex_init(t) ==
    /\ At(t, "mutex_init")
    /\ \E r \in PthreadResults :
          /\ fatal_assert(r = 0)
          /\ Check(t, "mutex_init", r = 0)
          /\ mutexInit' = (r = 0)
          /\ barrierOnce' = IF r = 0 THEN "complete" ELSE barrierOnce
    /\ Record(t, "mutex_init")
    /\ Proceed(t, "mutex_lock")
    /\ UNCHANGED <<config, op, calls, strategyOnce, STRATEGY, page, lock,
                   registered, locals, memory, history, counts>>

\* The kernel may page out a page that is not locked in memory.
Evict ==
    /\ process = "running"
    /\ page.prot # "unmapped"
    /\ ~ page.pinned
    /\ page.resident
    /\ page' = [page EXCEPT !.resident = FALSE, !.dirty = FALSE]
    /\ UNCHANGED <<config, process, pc, op, calls, lazy, mutexInit, lock,
                   registered, locals, trace, failed, memory, history, counts>>

\* ----------------------------------------------------------- Barrier::barrier

\* A wrong lock: it is taken whether or not another thread holds it.
barrier_lock_NoWait(t) ==
    /\ At(t, "mutex_lock")
    /\ lock' = t
    /\ Acquire(t)
    /\ Record(t, "mutex_lock")
    /\ Goto(t, "mprotect_rw")
    /\ UNCHANGED <<config, process, op, calls, lazy, page, mutexInit, registered,
                   locals, failed, history, counts>>

\* fatal_assert!(pthread_mutex_lock(lock) == 0): returns 0 once the mutex is
\* free, or an error at once.
barrier_lock(t) ==
    /\ At(t, "mutex_lock")
    /\ \E r \in PthreadResults :
          /\ r = 0 => lock = NoThread
          /\ fatal_assert(r = 0)
          /\ Check(t, "mutex_lock", r = 0)
          /\ lock' = IF r = 0 THEN t ELSE lock
          /\ IF r = 0 THEN Acquire(t) ELSE UNCHANGED memory
    /\ Record(t, "mutex_lock")
    /\ Proceed(t, "mprotect_rw")
    /\ UNCHANGED <<config, op, calls, lazy, page, mutexInit, registered, locals,
                   history, counts>>

\* A wrong first protection change: the write to the page is skipped.
barrier_mprotect_rw_SkipsWrite(t) ==
    /\ At(t, "mprotect_rw")
    /\ \E r \in CallResults :
          /\ fatal_assert(r = 0)
          /\ Check(t, "mprotect_rw", r = 0)
          /\ page' = IF r = 0 THEN [page EXCEPT !.prot = "rw"] ELSE page
    /\ Record(t, "mprotect_rw")
    /\ Proceed(t, "mprotect_none")
    /\ UNCHANGED <<config, op, calls, lazy, mutexInit, lock, registered, locals,
                   memory, history, counts>>

\* fatal_assert!(mprotect(page, page_size, PROT_READ | PROT_WRITE) == 0).
barrier_mprotect_rw(t) ==
    /\ At(t, "mprotect_rw")
    /\ \E r \in CallResults :
          /\ fatal_assert(r = 0)
          /\ Check(t, "mprotect_rw", r = 0)
          /\ page' = IF r = 0 THEN [page EXCEPT !.prot = "rw"] ELSE page
    /\ Record(t, "mprotect_rw")
    /\ Proceed(t, "fetch_add")
    /\ UNCHANGED <<config, op, calls, lazy, mutexInit, lock, registered, locals,
                   memory, history, counts>>

\* atomic_usize.fetch_add(1, SeqCst) on the page: the write faults unless the
\* page is writable; it brings the page in and dirties it.
barrier_fetch_add(t) ==
    /\ At(t, "fetch_add")
    /\ IF page.prot = "rw"
       THEN /\ process' = process
            /\ page' = [page EXCEPT !.word = @ + 1, !.dirty = TRUE, !.resident = TRUE]
            /\ SeqCstFence(t)
       ELSE /\ process' = "segfault"
            /\ UNCHANGED <<page, memory>>
    /\ Record(t, "fetch_add")
    /\ Proceed(t, "mprotect_none")
    /\ UNCHANGED <<config, op, calls, lazy, mutexInit, lock, registered, locals,
                   failed, history, counts>>

\* The kernel sends the TLB-flush interrupt to every processor only for a page
\* that is in memory and was written (lib.rs:236-237, 276-278).
FlushesTlb(p) == p.resident /\ p.dirty

\* A wrong second protection change: the page is left read+write.
barrier_mprotect_none_KeepsRw(t) ==
    /\ At(t, "mprotect_none")
    /\ page' = [page EXCEPT !.prot = "rw"]
    /\ Record(t, "mprotect_none")
    /\ Goto(t, "mutex_unlock")
    /\ UNCHANGED <<config, process, op, calls, lazy, mutexInit, lock, registered,
                   locals, failed, memory, history, counts>>

\* fatal_assert!(mprotect(page, page_size, PROT_NONE) == 0).
barrier_mprotect_none(t) ==
    /\ At(t, "mprotect_none")
    /\ \E r \in CallResults :
          /\ fatal_assert(r = 0)
          /\ Check(t, "mprotect_none", r = 0)
          /\ IF r = 0
             THEN /\ page' = [page EXCEPT !.prot = "none", !.dirty = FALSE]
                  /\ IF FlushesTlb(page) THEN ProcessWideBarrier ELSE UNCHANGED memory
                  /\ LogBarrier(t)
             ELSE UNCHANGED <<page, memory, history>>
    /\ Record(t, "mprotect_none")
    /\ Proceed(t, "mutex_unlock")
    /\ UNCHANGED <<config, op, calls, lazy, mutexInit, lock, registered, locals,
                   counts>>

\* A wrong unlock: the call returns 0 and the mutex stays held.
barrier_unlock_KeepsLock(t) ==
    /\ At(t, "mutex_unlock")
    /\ Record(t, "mutex_unlock")
    /\ Goto(t, "return")
    /\ UNCHANGED <<config, process, op, calls, lazy, pagevars, registered, locals,
                   failed, memory, history, counts>>

\* fatal_assert!(pthread_mutex_unlock(lock) == 0).
barrier_unlock(t) ==
    /\ At(t, "mutex_unlock")
    /\ \E r \in PthreadResults :
          /\ fatal_assert(r = 0)
          /\ Check(t, "mutex_unlock", r = 0)
          /\ lock' = IF r = 0 THEN NoThread ELSE lock
          /\ IF r = 0 THEN Release(t) ELSE UNCHANGED memory
    /\ Record(t, "mutex_unlock")
    /\ Proceed(t, "return")
    /\ UNCHANGED <<config, op, calls, lazy, page, mutexInit, registered, locals,
                   history, counts>>

\* ------------------------------------------------------------ specification

\* The steps inside light() and heavy() on Linux.
LinuxStep(t) ==
    \/ strategy_deref(t)
    \/ is_supported_query(t)
    \/ is_supported_register(t)
    \/ strategy_init(t)
    \/ light_match(t)
    \/ heavy_match(t)
    \/ membarrier_barrier(t)
    \/ barrier_deref(t)
    \/ barrier_sysconf(t)
    \/ barrier_mmap(t)
    \/ barrier_mlock(t)
    \/ barrier_mutex_init(t)
    \/ barrier_lock(t)
    \/ barrier_mprotect_rw(t)
    \/ barrier_fetch_add(t)
    \/ barrier_mprotect_none(t)
    \/ barrier_unlock(t)
    \/ return(t)

\* light() and heavy() of the three platforms.
LightHeavy(t) ==
    \/ default_light(t)
    \/ default_heavy(t)
    \/ windows_light(t)
    \/ windows_heavy(t)
    \/ light(t)
    \/ heavy(t)

\* Every public operation of the crate, called by any thread at any time.
Next ==
    \/ \E t \in Threads :
          \/ LightHeavy(t)
          \/ init_membarrier(t)
          \/ light_membarrier(t)
          \/ heavy_membarrier(t)
          \/ init_assert(t)
          \/ LinuxStep(t)
    \/ Evict

Spec == Init /\ [][Next]_vars

\* Threads that store values of their own and call light() and heavy().
NextMem ==
    \/ \E t \in Threads :
          \/ Write(t)
          \/ LightHeavy(t)
          \/ LinuxStep(t)
    \/ Evict

SpecMem == Init /\ [][NextMem]_vars

\* No kernel call of the step of thread t fails: the checked calls succeed, the
\* query is answered with a mask, the registration and mlock succeed.
CallsSucceed(t) ==
    /\ process' = "running"
    /\ failed'[t] = "none"
    /\ pc[t] = "query" => ret'[t][1] >= 0
    /\ pc[t] = "register" => supported'[t] = "true"
    /\ pc[t] = "mlock" => page'.pinned

\* Threads that call light() and heavy() while every kernel call succeeds.
NextLive ==
    \E t \in Threads :
       \/ LightHeavy(t) /\ CallsSucceed(t)
       \/ LinuxStep(t) /\ CallsSucceed(t)

\* A running thread is scheduled, and the mutex is fair: a thread that waits
\* for it gets it when it is free again and again.
FairLock ==
    \A t \in Threads :
       /\ WF_vars(LinuxStep(t) /\ CallsSucceed(t))
       /\ SF_vars(barrier_lock(t) /\ CallsSucceed(t))

SpecLive == Init /\ [][NextLive]_vars /\ FairLock


\* ------------------------------------------------------------------ claims

\* The value a read by thread t of the location written by thread w returns:
\* the write, once t has recognised it.
Observes(t, w) == w \in known[t]

\* C1: cross-thread visibility.  For barrier calls X by thread A and Y by thread
\* B with X before Y, every write A made before X is visible to B after Y when
\* X or Y is heavy(), or when both are light() and light() is a full fence:
\* every thread observes every write the barriers so far owe it.
C1_Visibility == \A t \in Threads : \A w \in owed[t] : Observes(t, w)


\* Thread t ran the initialiser of STRATEGY in its current call and has stored
\* the value: supported[t] is what the syscall probe reported to it.
Resolved(t) ==
    /\ op[t] \in {"light", "heavy"}
    /\ supported[t] # "none"
    /\ pc[t] # "strategy_init"

\* C2: strategy resolution follows a strict priority.  Membarrier when the
\* syscall probe reports support, whatever the architecture; otherwise Mprotect
\* on x86 and x86-64; otherwise Fallback.  So Mprotect and Fallback are only
\* ever the value after a probe that reported no support.
C2_Priority ==
    /\ \A t \in Threads :
          Resolved(t) =>
             /\ supported[t] = "true" => STRATEGY = "Membarrier"
             /\ supported[t] = "false" /\ target_arch \in {"x86", "x86_64"}
                   => STRATEGY = "Mprotect"
             /\ supported[t] = "false" /\ target_arch \notin {"x86", "x86_64"}
                   => STRATEGY = "Fallback"
    /\ STRATEGY = "Mprotect" => target_arch \in {"x86", "x86_64"}
    /\ STRATEGY = "Fallback" => target_arch \notin {"x86", "x86_64"}

\* C2, its case: the probe reported support on an architecture where the page
\* trick is supported too, and the strategy is Membarrier.
C2_Witness ==
    \E t \in Threads :
       /\ Resolved(t)
       /\ supported[t] = "true"
       /\ target_arch = "x86_64"
       /\ STRATEGY = "Membarrier"

\* C3: strategy selection is a one-shot transition.  Once resolved, STRATEGY
\* never changes, and every match of every thread reads the resolved value.
C3_OneShot ==
    [][/\ STRATEGY # "Unresolved" => STRATEGY' = STRATEGY
       /\ \A t \in Threads :
             matched'[t] # "none" =>
                matched'[t] = STRATEGY' /\ STRATEGY' \in Strategies]_vars

\* C3, its case: a thread that did not run the initialiser dispatches on
\* Membarrier while a later probe of the kernel, by init_membarrier(), reports
\* no support.
C3_Witness ==
    \E t, u \in Threads :
       /\ op[t] \in {"light", "heavy"}
       /\ supported[t] = "none"
       /\ matched[t] = "Membarrier"
       /\ op[u] = "init_membarrier"
       /\ supported[u] = "false"

\* Thread t is inside the page transition sequence: it has taken the lock and
\* has not released it.
InSequence(t) ==
    pc[t] \in {"mprotect_rw", "fetch_add", "mprotect_none", "mutex_unlock"}

\* C4: at most one thread at a time is inside the page transition sequence,
\* and that thread holds the lock.
C4_MutualExclusion ==
    \A t, u \in Threads :
       /\ InSequence(t) /\ InSequence(u) => t = u
       /\ InSequence(t) => lock = t

\* C4, its case: one thread is inside the sequence while another waits for
\* the lock.
C4_Witness ==
    \E t, u \in Threads :
       t # u /\ InSequence(t) /\ pc[u] = "mutex_lock" /\ process = "running"

\* C5: whenever no thread holds the page lock, the protection of the mapped
\* page is none; the page is read+write only while the lock holder stands
\* between its two protection changes.
C5_ProtectionNone ==
    /\ lock = NoThread /\ page.prot # "unmapped" => page.prot = "none"
    /\ page.prot = "rw" =>
          lock \in Threads /\ pc[lock] \in {"fetch_add", "mprotect_none"}

\* C5, its case: two full heavy() cycles have ended, the lock is free and the
\* protection is none.
C5_Witness ==
    /\ page.word = MaxCalls
    /\ lock = NoThread
    /\ page.prot = "none"
    /\ \A t \in Threads : pc[t] = "idle"


AfterMatch(t) ==
    LET i == CHOOSE i \in 1..Len(trace[t]) : trace[t][i] = "match"
    IN  SubSeq(trace[t], i + 1, Len(trace[t]))

Prefix(s, full) == Len(s) <= Len(full) /\ s = SubSeq(full, 1, Len(s))

\* The calls of the initialiser of BARRIER and of Barrier::barrier, in order.
BarrierInitCalls == <<"sysconf", "mmap", "mlock", "mutex_init">>
PageSequence ==
    <<"mutex_lock", "mprotect_rw", "fetch_add", "mprotect_none", "mutex_unlock">>

BarrierCalls ==
    {"membarrier", "FlushProcessWriteBuffers", "sysconf", "mmap", "mlock",
     "mutex_init", "mutex_lock", "mprotect_rw", "fetch_add", "mprotect_none",
     "mutex_unlock"}

\* C8: light() emits a compiler fence only when the strategy is Membarrier or
\* Mprotect and a full SeqCst fence when it is Fallback (or the system is
\* neither Linux nor Windows); it never issues a barrier system call, never
\* takes the page lock and never changes the page protection.
C8_LightFence ==
    \A t \in Threads :
       op[t] = "light" =>
          /\ \A i \in 1..Len(trace[t]) : trace[t][i] \notin BarrierCalls
          /\ lock # t
          /\ matched[t] \in {"Membarrier", "Mprotect"} => emitted[t] = "compiler"
          /\ matched[t] = "Fallback" => emitted[t] = "seqcst"
          /\ matched[t] # "none" => matched[t] = STRATEGY
          /\ pc[t] = "return" /\ target_os = "linux" => matched[t] # "none"
          /\ pc[t] = "return" /\ target_os = "other" => emitted[t] = "seqcst"
          /\ pc[t] = "return" /\ target_os = "windows" => emitted[t] = "compiler"

\* C8, its case: a light() call has emitted the full fence of the Fallback
\* strategy while another thread is inside heavy().
C8_Witness ==
    \E t, u \in Threads :
       /\ op[t] = "light"
       /\ pc[t] = "return"
       /\ matched[t] = "Fallback"
       /\ emitted[t] = "seqcst"
       /\ op[u] = "heavy"


\* A step taken by thread t inside light(), its first and its last included.
LightStep(t) == (op[t] = "light" \/ op'[t] = "light") /\ pc'[t] # pc[t]

\* The step of thread t issues a kernel call.
KernelCall(t) ==
    /\ Len(trace'[t]) > Len(trace[t])
    /\ trace'[t][Len(trace'[t])] # "match"

\* Thread t stands inside light() and cannot take a step: it waits.
Waits(t) ==
    /\ process = "running"
    /\ op[t] = "light"
    /\ ~ ENABLED (LinuxStep(t))

\* The shared state of the crate and what the kernel holds for the process.
sharedState ==
    <<STRATEGY, strategyOnce, registered, page, lock, barrierOnce, mutexInit>>

\* C9, as stated: every step of every light() call, the first call of the
\* process included, leaves all shared state unchanged, issues no kernel call,
\* does not abort, and no light() call ever waits.
C9_Original ==
    [][\A t \in Threads :
          /\ LightStep(t) =>
                UNCHANGED sharedState /\ process' = process /\ ~ KernelCall(t)
          /\ ~ Waits(t)]_vars

\* The strategy has been resolved, or the system has none to resolve.
StrategyReady == target_os # "linux" \/ strategyOnce = "complete"

\* C9, amended: no light() call ever touches the page mapping, the page
\* protection or the lock, and none aborts.  Once the strategy is resolved a
\* light() call leaves all shared state unchanged, issues no kernel call and
\* does not wait.  A light() call that finds the strategy unresolved runs the
\* one-time probe (the query and, if it is accepted, the registration) and
\* stores the strategy, and one that comes while the probe runs waits for it.
C9_LightFrame ==
    [][\A t \in Threads :
          /\ LightStep(t) =>
                /\ UNCHANGED <<page, lock, barrierOnce, mutexInit>>
                /\ process' = process
                /\ StrategyReady => UNCHANGED sharedState /\ ~ KernelCall(t)
                /\ KernelCall(t) =>
                      trace'[t][Len(trace'[t])] \in {"query", "register"}
          /\ StrategyReady => ~ Waits(t)]_vars

\* C9, its case: a light() call that found the strategy resolved has emitted
\* its fence while another thread holds the lock and the page is read+write.
C9_Witness ==
    \E t \in Threads :
       /\ op[t] = "light"
       /\ pc[t] = "return"
       /\ trace[t] = <<"match">>
       /\ lock \notin {NoThread, t}
       /\ page.prot = "rw"

\* C10: heavy() is fail-fast.  When the membarrier call, the lock, either
\* protection change or the unlock fails, the process aborts at that step: the
\* failed call is the last the thread made, and the thread never goes on.  A
\* heavy() call that returns has had no failed call and has completed its
\* barrier.
C10_FailFast ==
    \A t \in Threads :
       /\ failed[t] # "none" =>
             /\ process = "aborted"
             /\ trace[t] # << >>
             /\ trace[t][Len(trace[t])] = failed[t]
             /\ pc[t] \notin {"return", "idle"}
       /\ op[t] = "heavy" /\ pc[t] = "return" /\ target_os = "linux" =>
             /\ failed[t] = "none"
             /\ matched[t] = "Membarrier" => AfterMatch(t) = <<"membarrier">>
             /\ matched[t] = "Mprotect" =>
                   \E init \in {<< >>, BarrierInitCalls} :
                      AfterMatch(t) = init \o PageSequence

\* C10, its case: the second protection change of a heavy() call failed and
\* the process is aborted with the page still read+write and the lock held.
C10_Witness ==
    \E t \in Threads :
       /\ op[t] = "heavy"
       /\ failed[t] = "mprotect_none"
       /\ process = "aborted"
       /\ pc[t] = "mprotect_none"
       /\ page.prot = "rw"
       /\ lock = t


\* Thread t uses the page barrier: it stands at the lock or inside the page
\* transition sequence.
UsesBarrier(t) == pc[t] = "mutex_lock" \/ InSequence(t)

\* The set-up call of BARRIER that did not do its work, if any.
SetupFailure ==
    CASE page.prot = "unmapped" -> "mmap"
      [] ~ page.pinned          -> "mlock"
      [] ~ mutexInit            -> "mutex_init"
      [] OTHER                  -> "none"

\* C11: every set-up failure of the page barrier is fatal.  When obtaining the
\* page size, mapping the page, locking the page in memory or constructing the
\* mutex fails, the process aborts; so the initialisation of BARRIER completes,
\* and heavy() comes to the lock and the page transition sequence, only on a
\* page that was mapped and pinned, with the mutex initialised.
C11_SetupFatal ==
    /\ barrierOnce = "complete" => SetupFailure = "none"
    /\ \A t \in Threads :
          /\ UsesBarrier(t) => SetupFailure = "none"
          /\ pc[t] = "mutex_init" /\ process = "running" => page.pinned
          /\ failed[t] \in {"sysconf", "mmap", "mutex_init"} => process = "aborted"


\* Bit b (a power of two) is set in the non-negative mask r.
HasBit(r, b) == (r \div b) % 2 = 1

\* The answer r to the query is an error or lacks a capability bit.
QueryRefused(r) == r < 0 \/ ~ HasBit(r, 2) \/ ~ HasBit(r, 4)

\* Thread t runs the initialiser of STRATEGY.
Resolving(t) ==
    /\ op[t] \in {"light", "heavy"}
    /\ pc[t] \in {"query", "register", "strategy_init"}

\* The process died of a checked call of a barrier or of the page set-up.
DiedOfCall == \E t \in Threads : failed[t] # "none"

\* The process died in init_membarrier(), whose fatal_assert! found that the
\* probe had reported no support.
DiedOfInitAssert ==
    \E t \in Threads :
       op[t] = "init_membarrier" /\ pc[t] = "init_assert" /\ supported[t] = "false"

\* What the probe does with the kernel's answers, and what resolution stores.
ProbeReports ==
    /\ \A t \in Threads :
          /\ ret[t] # << >> /\ QueryRefused(ret[t][1]) =>
                pc[t] \in {"strategy_init", "init_assert"} /\ supported[t] = "false"
          /\ pc[t] \in {"strategy_init", "init_assert"} =>
                supported[t] \in {"true", "false"}
          /\ op[t] \in {"light", "heavy"} /\ target_os = "linux"
                /\ pc[t] \notin {"strategy_deref", "query", "register", "strategy_init"}
                => STRATEGY \in Strategies
    /\ strategyOnce = "complete" <=> STRATEGY \in Strategies
    /\ process # "segfault"

StepsLeft(p) ==
    CASE p = "query"         -> 3
      [] p = "register"      -> 2
      [] p = "strategy_init" -> 1
      [] OTHER               -> 0

AllReturned == \A t \in Threads : pc[t] = "idle"

\* C13: liveness and deadlock freedom.  Threads call heavy() and light()
\* concurrently, under every strategy, with a fair lock and no failing kernel
\* call: every call eventually returns, a thread that waits for the page lock
\* eventually holds it, the lock is free (and the page protection none) once
\* all calls have returned, and the process never aborts.
C13_Liveness ==
    /\ [](process = "running")
    /\ [](AllReturned => lock = NoThread /\ page.prot \in {"unmapped", "none"})
    /\ \A t \in Threads :
          /\ (pc[t] # "idle") ~> (pc[t] = "idle")
          /\ (pc[t] = "mutex_lock") ~> (lock = t)

\* C13, its case: every thread has made all its calls, all of them heavy(),
\* under the Mprotect strategy, and all have returned.
C13_Witness ==
    /\ AllReturned
    /\ STRATEGY = "Mprotect"
    /\ counts.heavy = Cardinality(Threads) * MaxCalls
    /\ page.word = Cardinality(Threads) * MaxCalls
    /\ lock = NoThread


\* No thread has issued heavy(): none has returned from one, none is inside one.
NoHeavy == counts.heavy = 0 /\ \A t \in Threads : op[t] # "heavy"

\* C14: two light() calls alone do not guarantee visibility under a supported
\* strategy.  While the strategy is Membarrier or Mprotect and no thread has
\* issued heavy(), light() moves nothing between processors: whatever light()
\* calls the threads have made, no thread is guaranteed to observe a write of
\* another thread.
C14_LightAlone ==
    target_os = "linux" /\ STRATEGY \in {"Membarrier", "Mprotect"} /\ NoHeavy =>
       \A t, w \in Threads : w # t => ~ Observes(t, w)

\* C14, its case: thread A wrote and then completed light() (its barrier was
\* logged with the write known to it), thread B has emitted the fence of its
\* light() and is about to read, nobody issued heavy(), and B does not observe
\* A's write.
C14_Witness ==
    \E A, B \in Threads :
       /\ A # B
       /\ STRATEGY \in {"Membarrier", "Mprotect"}
       /\ NoHeavy
       /\ A \in known[A] /\ A \in snapLight /\ pc[A] = "idle" /\ calls[A] = 1
       /\ op[B] = "light" /\ pc[B] = "return" /\ emitted[B] = "compiler"
       /\ ~ Observes(B, A)


\* The query's answer q is non-negative and has the global-expedited bit and
\* the register-global-expedited bit.
BothBits(q) == q >= 0 /\ HasBit(q, 2) /\ HasBit(q, 4)

\* is_supported() has returned to thread t, whose caller has not yet used the
\* result (the fatal_assert! of init_membarrier() has not yet aborted).
ProbeReturned(t) ==
    /\ pc[t] \in {"strategy_init", "init_assert"}
    /\ ~ (pc[t] = "init_assert" /\ process = "aborted" /\ ret[t] = << >>)

Issues(t, call) ==
    /\ Len(trace'[t]) = Len(trace[t]) + 1
    /\ trace'[t][Len(trace'[t])] = call

\* The step does not kill the process: the call it issues succeeds.
Survives == process' = "running"

\* The threads inside a heavy() call that has written to the page.
Wrote ==
    {t \in Threads :
        op[t] = "heavy" /\ \E i \in 1..Len(trace[t]) : trace[t][i] = "fetch_add"}

\* What a heavy() call under Mprotect has issued so far: a prefix of the
\* sequence (after the one-time set-up, if it is the first), the whole of it
\* when the call returns; and every call has written to the page once.
SequenceSoFar ==
    /\ \A t \in Threads :
          op[t] = "heavy" /\ matched[t] = "Mprotect" =>
             \E init \in {<< >>, BarrierInitCalls} :
                /\ Prefix(AfterMatch(t), init \o PageSequence)
                /\ pc[t] = "return" => AfterMatch(t) = init \o PageSequence
    /\ STRATEGY = "Mprotect" => page.word = counts.heavy + Cardinality(Wrote)

\* C16: each heavy() call under Mprotect performs exactly the sequence lock,
\* protection none -> read+write, write to the page, protection read+write ->
\* none, unlock, in this order, no step skipped or repeated.  The write comes
\* after the first protection change and before the second, and it dirties the
\* page.
C16_Sequence ==
    [][/\ \A t \in Threads :
             /\ Issues(t, "mutex_lock") /\ Survives =>
                   lock = NoThread /\ lock' = t /\ page.prot = "none"
             /\ Issues(t, "mprotect_rw") /\ Survives =>
                   lock = t /\ page.prot = "none" /\ page'.prot = "rw"
             /\ Issues(t, "fetch_add") =>
                   /\ lock = t /\ Survives
                   /\ trace[t][Len(trace[t])] = "mprotect_rw"
                   /\ page.prot = "rw" /\ page'.prot = "rw"
                   /\ page'.word = page.word + 1 /\ page'.dirty
             /\ Issues(t, "mprotect_none") /\ Survives =>
                   /\ lock = t
                   /\ trace[t][Len(trace[t])] = "fetch_add"
                   /\ page.prot = "rw" /\ page'.prot = "none"
             /\ Issues(t, "mutex_unlock") /\ Survives =>
                   lock = t /\ lock' = NoThread /\ page.prot = "none"
       /\ SequenceSoFar']_vars

\* C16, its case: in the second cycle of the page a thread has made the first
\* protection change and the write and stands before the second change, the
\* page dirty and read+write, while the other thread waits for the lock.
C16_Witness ==
    \E t, u \in Threads :
       /\ t # u
       /\ pc[t] = "mprotect_none"
       /\ AfterMatch(t) = <<"mutex_lock", "mprotect_rw", "fetch_add">>
       /\ page.word = 2 /\ page.dirty /\ page.prot = "rw"
       /\ pc[u] = "mutex_lock"
       /\ process = "running"


\* The threads inside the initialiser of BARRIER.
Initialising ==
    {t \in Threads : pc[t] \in {"sysconf", "mmap", "mlock", "mutex_init"}}

\* C17: the initialisation of the page barrier is a one-shot transition
\* Unmapped -> Mapped that completes before use.  However the threads race on
\* the first heavy() under Mprotect, one thread at most runs the initialiser,
\* no thread comes to the lock or to a protection change before the page is
\* mapped and the mutex initialised, the page is mapped once (all threads use
\* the same page and the same lock), and what is mapped and initialised stays so.
C17_InitBeforeUse ==
    /\ [](/\ \A t \in Threads :
                UsesBarrier(t) =>
                   page.prot # "unmapped" /\ mutexInit /\ barrierOnce = "complete"
          /\ Cardinality(Initialising) <= 1
          /\ Initialising # {} <=> barrierOnce = "running"
          /\ barrierOnce = "incomplete" => page.prot = "unmapped" /\ ~ mutexInit
          /\ counts.mmap <= 1)
    /\ [][/\ page.prot # "unmapped" => page'.prot # "unmapped"
          /\ mutexInit => mutexInit'
          /\ barrierOnce = "complete" => barrierOnce' = "complete"]_vars

\* C17, its case: two threads race on the first heavy(); one runs the
\* initialiser and has mapped the page but not yet built the mutex, the other
\* waits at `*BARRIER`.
C17_Witness ==
    \E t, u \in Threads :
       /\ pc[t] = "mutex_init"
       /\ pc[u] = "barrier_deref"
       /\ op[u] = "heavy"
       /\ page.prot = "none" /\ ~ mutexInit
       /\ barrierOnce = "running"
       /\ process = "running"

\* C18: the write to the shared page never faults.  Whenever a thread stands
\* at the atomic increment, the page is read+write and the thread holds the
\* lock: no other thread has reset the protection since this thread's first
\* protection change.  So no execution ends in a fault.
C18_WriteNeverFaults ==
    /\ \A t \in Threads :
          pc[t] = "fetch_add" => page.prot = "rw" /\ lock = t
    /\ process # "segfault"

\* C18, its case: a thread stands at the increment, in a later cycle of the
\* page (an earlier cycle reset the protection to none), while the other thread
\* has finished a cycle of its own and waits for the lock again.
C18_Witness ==
    \E t, u \in Threads :
       /\ t # u
       /\ pc[t] = "fetch_add"
       /\ pc[u] = "mutex_lock" /\ calls[u] = MaxCalls
       /\ page.word >= 1
       /\ process = "running"

\* Some thread has issued heavy().
HeavyIssued == ~ NoHeavy

\* The page or its lock exists or has been touched.
BarrierTouched ==
    \/ barrierOnce # "incomplete"
    \/ page.prot # "unmapped"
    \/ mutexInit
    \/ lock # NoThread
    \/ counts.mmap > 0
    \/ \E t \in Threads : UsesBarrier(t) \/ t \in Initialising

\* C19: the shared page and its lock are created only when needed.  Under
\* Membarrier and Fallback (and on systems other than Linux) no call ever maps
\* the page, initialises the mutex or changes a protection; under Mprotect the
\* page stays unmapped until the first heavy() call.
C19_LazyPage ==
    BarrierTouched =>
       target_os = "linux" /\ STRATEGY = "Mprotect" /\ HeavyIssued

\* C19, its case: under Mprotect both threads have made all their calls, the
\* last of each a light(), no heavy() was issued, and the page is unmapped.
C19_Witness ==
    /\ STRATEGY = "Mprotect"
    /\ NoHeavy
    /\ \A t \in Threads :
          op[t] = "light" /\ pc[t] = "return" /\ calls[t] = MaxCalls
    /\ page.prot = "unmapped"
    /\ barrierOnce = "incomplete"

====
